---- MODULE Spec2Model ----
(***************************************************************************)
(* Model of split_tiff_to_chinks_with_prefix.py: split_chunks (the tiling  *)
(* loop with the blank-chunk filter) and process_tiff_directory (the       *)
(* directory walk that calls split_chunks once per discovered file).       *)
(*                                                                         *)
(* Strings are sequences of one-character strings, paths are sequences of  *)
(* path components, pixel arrays are records of a shape and a function     *)
(* from 0-based index tuples to values.                                    *)
(***************************************************************************)
EXTENDS Integers, Sequences, FiniteSets, TLC

VARIABLES
    tree,         \* the files present under the input root (set of paths)
    dirs,         \* directories created by os.makedirs
    wargs,        \* arguments of process_tiff_directory
    wpc,          \* position of process_tiff_directory
    tiff_files,   \* the list built by the two glob calls
    k,            \* index (1-based) of the file the walk is at
    subdirs,      \* output_subdir computed for each file the walk reached
    stdout,       \* messages printed by the walk
    call,         \* arguments of the current split_chunks call
    pc,           \* position of the current split_chunks call
    dataset,      \* the rasterio dataset opened by the current call
    i,            \* row index of the loop
    j,            \* column index of the loop
    windows,      \* windows constructed by the current call, in order
    raw,          \* array returned by the last dataset.read
    small_image,  \* array handed to the filter and the encoder
    ticks,        \* pbar.n of the current call
    writes        \* files saved, in order, tagged with call and cell

vars == <<tree, dirs, wargs, wpc, tiff_files, k, subdirs, stdout, call, pc,
          dataset, i, j, windows, raw, small_image, ticks, writes>>

walkVars == <<wargs, wpc, tiff_files, k, subdirs, stdout>>
loopVars == <<i, j, windows, raw, small_image, ticks>>

----------------------------------------------------------------------------
(* Bounds *)

MaxW == 3
MaxH == 2
MaxArea == 6
MaxChunk == 2
MaxBands == 4
MaxFiles == 2
WalkMaxW == 2

----------------------------------------------------------------------------
(* Strings and paths *)

Digits == <<"0", "1", "2", "3", "4", "5", "6", "7", "8", "9">>

RECURSIVE str(_)
str(n) == IF n < 10 THEN <<Digits[n + 1]>>
          ELSE str(n \div 10) \o <<Digits[(n % 10) + 1]>>

Last(s) == s[Len(s)]
Front(s) == SubSeq(s, 1, Len(s) - 1)

IsPrefix(p, s) == Len(p) <= Len(s) /\ SubSeq(s, 1, Len(p)) = p
IsSuffix(p, s) == Len(p) <= Len(s) /\ SubSeq(s, Len(s) - Len(p) + 1, Len(s)) = p

basename(path) == Last(path)
dirname(path) == Front(path)

\* os.path.relpath(path, start) for a path below start
relpath(path, start) == SubSeq(path, Len(start) + 1, Len(path))

\* os.path.join of relative parts: an empty part adds no component
join(a, b) == a \o b

LeadingDots(name) ==
    IF \A n \in 1..Len(name) : name[n] = "." THEN Len(name)
    ELSE (CHOOSE n \in 1..Len(name) :
              name[n] # "." /\ \A m \in 1..(n - 1) : name[m] = ".") - 1

\* os.path.splitext(name)[0]: cut at the last dot that is not a leading dot
splitext(name) ==
    LET dots == {n \in (LeadingDots(name) + 1)..Len(name) : name[n] = "."}
    IN  IF dots = {} THEN name
        ELSE SubSeq(name, 1, (CHOOSE n \in dots : \A m \in dots : m <= n) - 1)

\* every directory os.makedirs(path, exist_ok=True) leaves in existence
makedirs(path) == {SubSeq(path, 1, n) : n \in 1..Len(path)}

----------------------------------------------------------------------------
(* Pixel arrays *)

Idx3(a, b, c) == (0..(a - 1)) \X (0..(b - 1)) \X (0..(c - 1))

NoArray == [shape |-> <<>>, data |-> <<>>]

\* the contents a window of the source can have, by band b, row r, column c
Patterns == {"zeros", "white", "grey", "first0", "last254",
             "rgb0_a255", "rgb255_a0", "rgb0_a7"}

PixelAt(pat, nb, h, w, b, r, c) ==
    CASE pat = "zeros"     -> 0
      [] pat = "white"     -> 255
      [] pat = "grey"      -> 7
      [] pat = "first0"    -> IF b = 0 /\ r = 0 /\ c = 0 THEN 0 ELSE 255
      [] pat = "last254"   -> IF b = nb - 1 /\ r = h - 1 /\ c = w - 1
                              THEN 254 ELSE 255
      [] pat = "rgb0_a255" -> IF b < 3 THEN 0 ELSE 255
      [] pat = "rgb255_a0" -> IF b < 3 THEN 255 ELSE 0
      [] pat = "rgb0_a7"   -> IF b < 3 THEN 0 ELSE 7

\* rasterio.windows.Window(col_off, row_off, width, height) of cell (row, col)
Window_mut(row, col, x_pixels, y_pixels) ==
    [col_off |-> col * x_pixels, row_off |-> col * y_pixels,
     width |-> x_pixels, height |-> y_pixels]

Window(row, col, x_pixels, y_pixels) ==
    [col_off |-> col * x_pixels, row_off |-> row * y_pixels,
     width |-> x_pixels, height |-> y_pixels]

\* dataset.read(window=window): always (bands, rows, cols)
read(ds, window, pat) ==
    [shape |-> <<ds.count, window.height, window.width>>,
     data  |-> [t \in Idx3(ds.count, window.height, window.width) |->
                   PixelAt(pat, ds.count, window.height, window.width,
                           t[1], t[2], t[3])]]

ndim(a) == Len(a.shape)

\* np.moveaxis(a, 0, -1) of a 3-D array
moveaxis(a) ==
    [shape |-> <<a.shape[2], a.shape[3], a.shape[1]>>,
     data  |-> [t \in Idx3(a.shape[2], a.shape[3], a.shape[1]) |->
                   a.data[<<t[3], t[1], t[2]>>]]]

\* a[:, :, :3]
first3(a) ==
    [shape |-> <<a.shape[1], a.shape[2], 3>>,
     data  |-> [t \in Idx3(a.shape[1], a.shape[2], 3) |-> a.data[t]]]

\* np.all(a == v)
all_eq(a, v) == \A t \in DOMAIN a.data : a.data[t] = v

\* the RGBA to RGB conversion of the loop body
to_rgb_mut(a) == IF ndim(a) = 3 THEN moveaxis(a) ELSE a

to_rgb(a) ==
    IF ndim(a) = 3
    THEN LET m == moveaxis(a)
         IN  IF m.shape[3] = 4 THEN first3(m) ELSE m
    ELSE a

\* the blank filter of the loop body
is_blank_mut(img) == all_eq(img, 255)

is_blank(img) == all_eq(img, 255) \/ all_eq(img, 0)

\* the chunk file name
chunk_name_mut(prefix, tiff_name, row, col) ==
    IF prefix # <<>>
    THEN prefix \o <<"_">> \o tiff_name \o <<"_", "c", "h", "u", "n", "k", "_">>
         \o str(col) \o <<"_">> \o str(col) \o <<".", "j", "p", "g">>
    ELSE tiff_name \o <<"_", "c", "h", "u", "n", "k", "_">>
         \o str(col) \o <<"_">> \o str(col) \o <<".", "j", "p", "g">>

chunk_name(prefix, tiff_name, row, col) ==
    IF prefix # <<>>
    THEN prefix \o <<"_">> \o tiff_name \o <<"_", "c", "h", "u", "n", "k", "_">>
         \o str(row) \o <<"_">> \o str(col) \o <<".", "j", "p", "g">>
    ELSE tiff_name \o <<"_", "c", "h", "u", "n", "k", "_">>
         \o str(row) \o <<"_">> \o str(col) \o <<".", "j", "p", "g">>

\* the number of chunks along each axis
num_x_chunks_mut(ds, x_pixels) == (ds.width + x_pixels - 1) \div x_pixels

num_x_chunks(ds, x_pixels) == ds.width \div x_pixels

num_y_chunks(ds, y_pixels) == ds.height \div y_pixels

----------------------------------------------------------------------------
(* split_chunks *)

NoDataset == [state |-> "none", width |-> 0, height |-> 0, count |-> 0]

NoCall == [tiff_path |-> <<>>, output_dir |-> <<>>, x_pixels |-> 1,
           y_pixels |-> 1, prefix |-> <<>>]

tiff_name == splitext(basename(call.tiff_path))

nx == num_x_chunks(dataset, call.x_pixels)
ny == num_y_chunks(dataset, call.y_pixels)

Widths == IF wpc = "direct" THEN 1..MaxW ELSE 1..WalkMaxW
Heights == IF wpc = "direct" THEN 1..MaxH ELSE {1}
Counts == IF wpc = "direct" THEN 1..MaxBands ELSE {3}

\* range(num_y_chunks) x range(num_x_chunks) is exhausted
LoopDone == i >= ny \/ nx = 0

\* the loop indices after cell (i, j)
Advance ==
    IF j + 1 < nx THEN i' = i /\ j' = j + 1 ELSE i' = i + 1 /\ j' = 0

\* os.makedirs(output_dir); rasterio.open raises
OpenFails ==
    /\ pc = "entry"
    /\ dirs' = dirs \cup makedirs(call.output_dir)
    /\ pc' = "failed"
    /\ UNCHANGED <<tree, walkVars, call, dataset, loopVars, writes>>

\* os.makedirs(output_dir); rasterio.open returns a dataset
OpenOk ==
    /\ pc = "entry"
    /\ dirs' = dirs \cup makedirs(call.output_dir)
    /\ \E w \in Widths, h \in Heights, n \in Counts :
          /\ w * h <= MaxArea
          /\ dataset' = [state |-> "open", width |-> w, height |-> h, count |-> n]
    /\ pc' = "loop"
    /\ UNCHANGED <<tree, walkVars, call, loopVars, writes>>

\* dataset.read raises in cell (i, j)
ReadFails ==
    /\ pc = "loop" /\ ~LoopDone
    /\ windows' = Append(windows, Window(i, j, call.x_pixels, call.y_pixels))
    /\ pc' = "failed"
    /\ UNCHANGED <<tree, dirs, walkVars, call, dataset, i, j, raw,
                   small_image, ticks, writes>>

\* cell (i, j) is all-white or all-black: tick and continue
SkipBlank_mut ==
    /\ pc = "loop" /\ ~LoopDone
    /\ \E pat \in Patterns :
          LET window == Window(i, j, call.x_pixels, call.y_pixels)
              a == read(dataset, window, pat)
              img == to_rgb(a)
          IN  /\ is_blank(img)
              /\ windows' = Append(windows, window)
              /\ raw' = a
              /\ small_image' = img
    /\ Advance
    /\ UNCHANGED <<tree, dirs, walkVars, call, dataset, pc, ticks, writes>>

SkipBlank ==
    /\ pc = "loop" /\ ~LoopDone
    /\ \E pat \in Patterns :
          LET window == Window(i, j, call.x_pixels, call.y_pixels)
              a == read(dataset, window, pat)
              img == to_rgb(a)
          IN  /\ is_blank(img)
              /\ windows' = Append(windows, window)
              /\ raw' = a
              /\ small_image' = img
    /\ ticks' = ticks + 1
    /\ Advance
    /\ UNCHANGED <<tree, dirs, walkVars, call, dataset, pc, writes>>

\* cell (i, j) is not blank and Image.fromarray or pil_image.save raises
EncodeFails ==
    /\ pc = "loop" /\ ~LoopDone
    /\ \E pat \in Patterns :
          LET window == Window(i, j, call.x_pixels, call.y_pixels)
              a == read(dataset, window, pat)
              img == to_rgb(a)
          IN  /\ ~is_blank(img)
              /\ windows' = Append(windows, window)
              /\ raw' = a
              /\ small_image' = img
    /\ pc' = "failed"
    /\ UNCHANGED <<tree, dirs, walkVars, call, dataset, i, j, ticks, writes>>

\* cell (i, j) is not blank: save it, tick and continue
SaveChunk ==
    /\ pc = "loop" /\ ~LoopDone
    /\ \E pat \in Patterns :
          LET window == Window(i, j, call.x_pixels, call.y_pixels)
              a == read(dataset, window, pat)
              img == to_rgb(a)
          IN  /\ ~is_blank(img)
              /\ windows' = Append(windows, window)
              /\ raw' = a
              /\ small_image' = img
    /\ writes' = Append(writes,
           [path |-> join(call.output_dir,
                          <<chunk_name(call.prefix, tiff_name, i, j)>>),
            call |-> k, row |-> i, col |-> j])
    /\ ticks' = ticks + 1
    /\ Advance
    /\ UNCHANGED <<tree, dirs, walkVars, call, dataset, pc>>

\* the loops are exhausted and split_chunks returns; the dataset was never
\* closed, so the handle is reclaimed only if the interpreter finalizes the
\* unreferenced object at once
Return ==
    /\ pc = "loop" /\ LoopDone
    /\ pc' = "returned"
    /\ \E st \in {"open", "closed"} : dataset' = [dataset EXCEPT !.state = st]
    /\ UNCHANGED <<tree, dirs, walkVars, call, loopVars, writes>>

----------------------------------------------------------------------------
(* process_tiff_directory *)

in_dir == <<"i", "n">>
out_dir == <<"o", "u", "t">>
a_dir == <<"a">>
img_tif == <<"i", "m", "g", ".", "t", "i", "f">>
img_tiff == <<"i", "m", "g", ".", "t", "i", "f", "f">>
img_TIF == <<"i", "m", "g", ".", "T", "I", "F">>
x_y_tif == <<"x", ".", "y", ".", "t", "i", "f">>
hidden_tif == <<".", "h", ".", "t", "i", "f">>
notes_txt == <<"n", "o", "t", "e", "s", ".", "t", "x", "t">>

\* the files an input tree is drawn from
Universe ==
    { <<in_dir, img_tif>>, <<in_dir, img_tiff>>, <<in_dir, a_dir, img_tif>>,
      <<in_dir, a_dir, x_y_tif>>, <<in_dir, img_TIF>>, <<in_dir, hidden_tif>>,
      <<in_dir, notes_txt>> }

\* fnmatch of a file name against "*" followed by ext; "*" matches no
\* leading dot
fnmatch(name, ext) == IsSuffix(ext, name) /\ name[1] # "."

\* glob.glob(os.path.join(input_dir, "**", "*" + ext), recursive=True)
glob(input_dir, ext) ==
    {p \in tree : /\ IsPrefix(input_dir, p)
                  /\ Len(p) > Len(input_dir)
                  /\ fnmatch(basename(p), ext)
                  /\ \A n \in (Len(input_dir) + 1)..Len(p) : p[n][1] # "."}

\* the orders in which a directory scan can list a set of files
Orderings(S) ==
    {f \in [1..Cardinality(S) -> S] :
        \A m, n \in 1..Cardinality(S) : m # n => f[m] # f[n]}

\* the leaf output directory of one discovered file
output_subdir(output_dir, input_dir, tiff_path) ==
    join(join(output_dir, dirname(relpath(tiff_path, input_dir))),
         <<splitext(basename(tiff_path))>>)

\* both glob calls return nothing: report and return
WalkNoFiles_mut ==
    /\ wpc = "start"
    /\ glob(wargs.input_dir, <<".", "t", "i", "f">>) = {}
    /\ glob(wargs.input_dir, <<".", "t", "i", "f", "f">>) = {}
    /\ tiff_files' = <<>>
    /\ dirs' = dirs \cup makedirs(wargs.output_dir)
    /\ stdout' = Append(stdout, "no_files_found")
    /\ wpc' = "done"
    /\ UNCHANGED <<tree, wargs, k, subdirs, call, pc, dataset, loopVars,
                   writes>>

WalkNoFiles ==
    /\ wpc = "start"
    /\ glob(wargs.input_dir, <<".", "t", "i", "f">>) = {}
    /\ glob(wargs.input_dir, <<".", "t", "i", "f", "f">>) = {}
    /\ tiff_files' = <<>>
    /\ stdout' = Append(stdout, "no_files_found")
    /\ wpc' = "done"
    /\ UNCHANGED <<tree, dirs, wargs, k, subdirs, call, pc, dataset, loopVars,
                   writes>>

\* the glob calls return files: the .tif matches, then the .tiff matches
WalkFound ==
    /\ wpc = "start"
    /\ \E f1 \in Orderings(glob(wargs.input_dir, <<".", "t", "i", "f">>)),
          f2 \in Orderings(glob(wargs.input_dir, <<".", "t", "i", "f", "f">>)) :
          /\ f1 \o f2 # <<>>
          /\ tiff_files' = f1 \o f2
    /\ k' = 1
    /\ wpc' = "loop"
    /\ UNCHANGED <<tree, dirs, wargs, subdirs, stdout, call, pc, dataset,
                   loopVars, writes>>

\* one iteration of the file loop up to the call of split_chunks
WalkNextFile ==
    /\ wpc = "loop" /\ k <= Len(tiff_files)
    /\ LET tiff_path == tiff_files[k]
           sub == output_subdir(wargs.output_dir, wargs.input_dir, tiff_path)
       IN  /\ subdirs' = Append(subdirs, sub)
           /\ dirs' = dirs \cup makedirs(sub)
           /\ stdout' = Append(stdout, "processing_file")
           /\ call' = [tiff_path |-> tiff_path, output_dir |-> sub,
                       x_pixels |-> wargs.x_pixels,
                       y_pixels |-> wargs.y_pixels, prefix |-> wargs.prefix]
    /\ wpc' = "in_call"
    /\ pc' = "entry"
    /\ dataset' = NoDataset
    /\ i' = 0 /\ j' = 0 /\ windows' = <<>> /\ ticks' = 0
    /\ raw' = NoArray /\ small_image' = NoArray
    /\ UNCHANGED <<tree, wargs, tiff_files, k, writes>>

\* split_chunks returned: next file
WalkCallReturned ==
    /\ wpc = "in_call" /\ pc = "returned"
    /\ k' = k + 1
    /\ wpc' = "loop"
    /\ UNCHANGED <<tree, dirs, wargs, tiff_files, subdirs, stdout, call, pc,
                   dataset, loopVars, writes>>

\* split_chunks raised: the exception is not caught by the walk
WalkCallFailed_mut ==
    /\ wpc = "in_call" /\ pc = "failed"
    /\ k' = k + 1
    /\ wpc' = "loop"
    /\ UNCHANGED <<tree, dirs, wargs, tiff_files, subdirs, stdout, call, pc,
                   dataset, loopVars, writes>>

WalkCallFailed ==
    /\ wpc = "in_call" /\ pc = "failed"
    /\ wpc' = "aborted"
    /\ UNCHANGED <<tree, dirs, wargs, tiff_files, k, subdirs, stdout, call,
                   pc, dataset, loopVars, writes>>

\* the file loop is exhausted: final message
WalkSummary ==
    /\ wpc = "loop" /\ k > Len(tiff_files)
    /\ stdout' = Append(stdout, "all_processed")
    /\ wpc' = "done"
    /\ UNCHANGED <<tree, dirs, wargs, tiff_files, k, subdirs, call, pc,
                   dataset, loopVars, writes>>

----------------------------------------------------------------------------
(* Specifications *)

Prefixes == {<<>>, <<"p">>}

\* one direct call of split_chunks, as main makes it
InitChunk ==
    /\ wpc = "direct"
    /\ wargs = [input_dir |-> <<>>, output_dir |-> <<>>, x_pixels |-> 1,
                y_pixels |-> 1, prefix |-> <<>>]
    /\ \E path \in {<<in_dir, img_tiff>>, <<in_dir, a_dir, x_y_tif>>},
          x \in 1..MaxChunk, y \in 1..MaxChunk, pre \in Prefixes :
          /\ tree = {path}
          /\ call = [tiff_path |-> path, output_dir |-> <<out_dir>>,
                     x_pixels |-> x, y_pixels |-> y, prefix |-> pre]
    /\ dirs = {}
    /\ tiff_files = <<>> /\ k = 0 /\ subdirs = <<>> /\ stdout = <<>>
    /\ pc = "entry"
    /\ dataset = NoDataset
    /\ i = 0 /\ j = 0 /\ windows = <<>> /\ ticks = 0
    /\ raw = NoArray /\ small_image = NoArray
    /\ writes = <<>>

\* one call of process_tiff_directory on an input tree
InitWalk ==
    /\ wpc = "start"
    /\ tree \in {t \in SUBSET Universe : Cardinality(t) <= MaxFiles}
    /\ \E x \in 1..MaxChunk, pre \in Prefixes :
          wargs = [input_dir |-> <<in_dir>>, output_dir |-> <<out_dir>>,
                   x_pixels |-> x, y_pixels |-> 1, prefix |-> pre]
    /\ call = NoCall
    /\ dirs = {}
    /\ tiff_files = <<>> /\ k = 0 /\ subdirs = <<>> /\ stdout = <<>>
    /\ pc = "idle"
    /\ dataset = NoDataset
    /\ i = 0 /\ j = 0 /\ windows = <<>> /\ ticks = 0
    /\ raw = NoArray /\ small_image = NoArray
    /\ writes = <<>>

NextChunk ==
    \/ OpenFails
    \/ OpenOk
    \/ ReadFails
    \/ SkipBlank
    \/ EncodeFails
    \/ SaveChunk
    \/ Return

NextWalk ==
    \/ WalkNoFiles
    \/ WalkFound
    \/ WalkNextFile
    \/ WalkCallReturned
    \/ WalkCallFailed
    \/ WalkSummary
    \/ NextChunk

Spec == InitChunk /\ [][NextChunk]_vars

\* the call is sequential code: whenever a step is possible it is taken
SpecLive == InitChunk /\ [][NextChunk]_vars /\ WF_vars(NextChunk)

SpecWalk == InitWalk /\ [][NextWalk]_vars

TypeOK ==
    /\ pc \in {"idle", "entry", "loop", "returned", "failed"}
    /\ wpc \in {"direct", "start", "loop", "in_call", "done", "aborted"}
    /\ ticks \in Nat /\ i \in Nat /\ j \in Nat /\ k \in Nat

----------------------------------------------------------------------------
(* Properties *)

W == dataset.width
H == dataset.height
cw == call.x_pixels
ch == call.y_pixels

\* the grid cells (row, col) whose window fits in the source
FittingCells ==
    {c \in (0..H) \X (0..W) : (c[1] + 1) * ch <= H /\ (c[2] + 1) * cw <= W}

MyWrites == {n \in 1..Len(writes) : writes[n].call = k}

InWindow(x, y, w) ==
    /\ w.col_off <= x /\ x < w.col_off + w.width
    /\ w.row_off <= y /\ y < w.row_off + w.height

\* C1: a call that runs to its end visits exactly floor(W/cw) * floor(H/ch)
\* cells; every window constructed lies inside [0,W) x [0,H); when the chunk
\* is wider or taller than the source the call visits no cell, writes no
\* file and does not fail.
C1_GridCount ==
    /\ \A n \in 1..Len(windows) :
          /\ windows[n].col_off >= 0 /\ windows[n].row_off >= 0
          /\ windows[n].width = cw /\ windows[n].height = ch
          /\ windows[n].col_off + cw <= W
          /\ windows[n].row_off + ch <= H
    /\ Len(windows) <= Cardinality(FittingCells)
    /\ pc = "returned" => Len(windows) = Cardinality(FittingCells)
    /\ (dataset.state # "none" /\ (cw > W \/ ch > H)) =>
          /\ pc # "failed"
          /\ windows = <<>>
          /\ MyWrites = {}

C1_Witness ==
    /\ pc = "returned"
    /\ Len(windows) = 2
    /\ W % cw # 0
    /\ MyWrites # {}

\* the bands the filter and the encoder are meant to see
RetainedBands == IF raw.shape[1] = 4 THEN 3 ELSE raw.shape[1]

RetainedAll(v) ==
    \A t \in DOMAIN raw.data : t[1] < RetainedBands => raw.data[t] = v

LastCell ==
    <<windows[Len(windows)].row_off \div ch, windows[Len(windows)].col_off \div cw>>

LastCellWritten ==
    \E n \in MyWrites : <<writes[n].row, writes[n].col>> = LastCell

\* C2: for every cell the call has processed, a file for the cell is written
\* if and only if the pixels of the retained bands are neither all 255 nor
\* all 0.
C2_BlankFilter ==
    (ticks >= 1 /\ Len(windows) = ticks) =>
        (LastCellWritten <=> (~RetainedAll(255) /\ ~RetainedAll(0)))

C2_Witness ==
    /\ ticks >= 2 /\ Len(windows) = ticks
    /\ Len(writes) >= 1
    /\ raw.shape[1] = 4
    /\ RetainedAll(0) /\ ~all_eq(raw, 0)
    /\ ~LastCellWritten

\* the stem of the source file name: the name without its .tif or .tiff
Stem ==
    LET name == basename(call.tiff_path)
    IN  CHOOSE st \in {SubSeq(name, 1, n) : n \in 0..Len(name)} :
            \/ name = st \o <<".", "t", "i", "f">>
            \/ name = st \o <<".", "t", "i", "f", "f">>

ExpectedName(row, col) ==
    (IF call.prefix = <<>> THEN <<>> ELSE call.prefix \o <<"_">>)
    \o Stem \o <<"_", "c", "h", "u", "n", "k", "_">>
    \o str(row) \o <<"_">> \o str(col) \o <<".", "j", "p", "g">>

\* C3: every file written by the call is named [prefix_]stem_chunk_i_j.jpg
\* in the output directory with (i, j) a cell of the grid, and no two writes
\* of the call share a cell or a path.
C3_UniqueNames ==
    /\ \A n \in MyWrites :
          /\ <<writes[n].row, writes[n].col>> \in FittingCells
          /\ writes[n].path =
                 call.output_dir \o <<ExpectedName(writes[n].row, writes[n].col)>>
    /\ \A m, n \in MyWrites :
          m # n => /\ <<writes[m].row, writes[m].col>> # <<writes[n].row, writes[n].col>>
                   /\ writes[m].path # writes[n].path

C3_Witness ==
    /\ Len(writes) >= 3
    /\ call.prefix # <<>>
    /\ \E m, n \in MyWrites : writes[m].row # writes[n].row
    /\ \E m, n \in MyWrites : writes[m].col # writes[n].col

\* C4: the windows of a call never overlap, and when the call returns every
\* pixel of [0, nx*cw) x [0, ny*ch) is in exactly one window and every other
\* pixel of the source is in none.
C4_Tiling ==
    /\ \A m, n \in 1..Len(windows) :
          m # n => ~\E x \in 0..(W - 1), y \in 0..(H - 1) :
                       InWindow(x, y, windows[m]) /\ InWindow(x, y, windows[n])
    /\ pc = "returned" =>
          \A x \in 0..(W - 1), y \in 0..(H - 1) :
              Cardinality({n \in 1..Len(windows) : InWindow(x, y, windows[n])})
                = IF x < cw * (W \div cw) /\ y < ch * (H \div ch) THEN 1 ELSE 0

C4_Witness ==
    /\ pc = "returned"
    /\ Len(windows) >= 2
    /\ W % cw # 0
    /\ cw > 1

\* C5: the array handed to the filter and the encoder has the first three
\* bands of a 4-band window, and all the bands of a 3-band or 1-band window.
C5_Bands ==
    raw # NoArray =>
        /\ raw.shape[1] = 4 => small_image.shape[3] = 3
        /\ raw.shape[1] \in {1, 3} => small_image.shape[3] = raw.shape[1]
        /\ small_image.shape[1] = raw.shape[2]
        /\ small_image.shape[2] = raw.shape[3]
        /\ \A t \in DOMAIN small_image.data :
              small_image.data[t] = raw.data[<<t[3], t[1], t[2]>>]

C5_Witness ==
    /\ raw # NoArray
    /\ raw.shape[1] = 4
    /\ small_image.shape[3] = 3
    /\ ~all_eq(raw, 0) /\ all_eq(small_image, 0)

\* C6: no split_chunks call ends, by return or by failure, with the source
\* handle it opened still open.
C6_HandleReleased ==
    pc \in {"returned", "failed"} => dataset.state # "open"

\* C7: two distinct discovered files never get the same output_subdir, and
\* no chunk of one file is written to the path of a chunk of another.
C7_DistinctSubdirs ==
    /\ \A m, n \in 1..Len(subdirs) : m # n => subdirs[m] # subdirs[n]
    /\ \A m, n \in 1..Len(writes) :
          writes[m].call # writes[n].call => writes[m].path # writes[n].path

\* C8: when no .tif or .tiff file is under the input root, the walk ends
\* normally with the report only: no split_chunks call, no directory
\* created, no file written.
C8_NoFiles ==
    (wpc # "start" /\ tiff_files = <<>>) =>
        /\ wpc = "done"
        /\ pc = "idle"
        /\ dirs = {}
        /\ writes = <<>>
        /\ subdirs = <<>>
        /\ stdout = <<"no_files_found">>

C8_Witness ==
    /\ wpc = "done"
    /\ tiff_files = <<>>
    /\ Cardinality(tree) = 2

\* C9: once split_chunks has failed for the k-th file the walk does nothing
\* but abort: no directory, call, window, tick, write or message follows,
\* and an aborted walk has reached only the first k files and has not
\* printed the summary.
C9_FailFast ==
    /\ [](wpc = "aborted" =>
             /\ pc = "failed"
             /\ Len(subdirs) = k
             /\ \A n \in 1..Len(stdout) : stdout[n] # "all_processed")
    /\ [][pc = "failed" =>
             /\ wpc' = "aborted"
             /\ UNCHANGED <<dirs, subdirs, stdout, call, pc, k, windows,
                            ticks, writes>>]_vars

C9_Witness ==
    /\ wpc = "aborted"
    /\ k = 1
    /\ Len(tiff_files) = 2
    /\ Len(windows) >= 1

\* C10: the n-th window of a call is that of cell ((n-1) div nx, (n-1) mod nx),
\* the tick count is the number of cells fully processed, it is nx*ny when
\* the call returns, and every call comes to an end.
C10_RowMajorTicks ==
    /\ [](\A n \in 1..Len(windows) :
             /\ windows[n].row_off = ((n - 1) \div (W \div cw)) * ch
             /\ windows[n].col_off = ((n - 1) % (W \div cw)) * cw)
    /\ [](pc \in {"loop", "returned"} => ticks = Len(windows))
    /\ []((pc = "failed" /\ windows # <<>>) => ticks = Len(windows) - 1)
    /\ [](pc = "returned" => ticks = (W \div cw) * (H \div ch))
    /\ <>(pc \in {"returned", "failed"})

C10_Witness ==
    /\ pc = "returned"
    /\ ticks >= 4
    /\ Len(writes) >= 1
    /\ Len(writes) < ticks
    /\ H \div ch >= 2

====
